---- MODULE Spec2Model ----
(***************************************************************************)
(* Conversion of first-order formulas to prenex conjunctive normal form    *)
(* (solucion.py).  Node objects live in a heap: several passes assign to   *)
(* node.left / node.right in place and several rewrites put one object     *)
(* under two parents, so objects are modelled by reference, not by value.  *)
(***************************************************************************)
EXTENDS Integers, Sequences, FiniteSets, TLC

VARIABLES pc, input, heap, ast, quants, matrix, result, text, arg

vars == <<pc, input, heap, ast, quants, matrix, result, text, arg>>

(***************************************************************************)
(* Bounds of the checked instances.                                        *)
(***************************************************************************)
\* largest number of nodes of an input tree of the conversion pipeline
MaxNodes == 6
\* largest number of nodes of an input tree handed to one function alone
MaxOpNodes == 6
\* largest number of nodes of a tree that is printed and parsed back
MaxTextNodes == 4

(***************************************************************************)
(* class Node: a heap is a sequence of objects, a reference is an index,   *)
(* None is the reference 0 and, for the field variable, the string "None". *)
(***************************************************************************)
NoneRef == 0
NoVar == "None"

Ret(h, n) == [h |-> h, n |-> n]

Node(h, value, left, right, variable) ==
    Ret(Append(h, [value |-> value, left |-> left, right |-> right,
                   variable |-> variable]),
        Len(h) + 1)

is_leaf(h, node) == h[node].left = NoneRef /\ h[node].right = NoneRef

(***************************************************************************)
(* Trees as values: what a caller writes down with nested Node(...) calls, *)
(* and what is read off a heap from a root.                                *)
(***************************************************************************)
NoTree == [value |-> "None"]

Atom(s) == [value |-> s, left |-> NoTree, right |-> NoTree, variable |-> NoVar]
Not(t) == [value |-> "-", left |-> NoTree, right |-> t, variable |-> NoVar]
Bin(op, l, r) == [value |-> op, left |-> l, right |-> r, variable |-> NoVar]
Quant(k, x, t) == [value |-> k, left |-> NoTree, right |-> t, variable |-> x]

RECURSIVE Load(_, _)
\* nested constructor calls: the arguments are built before the node itself
Load(h, t) ==
    IF t = NoTree THEN Ret(h, NoneRef)
    ELSE LET l == Load(h, t.left)
             r == Load(l.h, t.right)
         IN Node(r.h, t.value, l.n, r.n, t.variable)

RECURSIVE Tree(_, _)
Tree(h, node) ==
    IF node = NoneRef THEN NoTree
    ELSE [value |-> h[node].value, left |-> Tree(h, h[node].left),
          right |-> Tree(h, h[node].right), variable |-> h[node].variable]

(***************************************************************************)
(* Propositional passes.                                                   *)
(***************************************************************************)
\* (P <-> Q) with the implication Q -> P put in as P -> Q a second time
rewrite_biconditional_one_way(h, node) ==
    LET p == h[node].left
        q == h[node].right
        imp1 == Node(h, "->", p, q, NoVar)
        imp2 == Node(imp1.h, "->", p, q, NoVar)
    IN Node(imp2.h, "&", imp1.n, imp2.n, NoVar)

\* (P <-> Q) becomes ((P -> Q) & (Q -> P)); P and Q are shared, not copied
rewrite_biconditional(h, node) ==
    LET p == h[node].left
        q == h[node].right
        imp1 == Node(h, "->", p, q, NoVar)
        imp2 == Node(imp1.h, "->", q, p, NoVar)
    IN Node(imp2.h, "&", imp1.n, imp2.n, NoVar)

RECURSIVE remove_biconditionals(_, _)
remove_biconditionals(h, node) ==
    IF node = NoneRef THEN Ret(h, NoneRef)
    ELSE IF h[node].value \in {"A", "E"} THEN
        IF h[node].right # NoneRef
        THEN LET r == remove_biconditionals(h, h[node].right)
             IN Ret([r.h EXCEPT ![node].right = r.n], node)
        ELSE Ret(h, node)
    ELSE
        LET h1 == IF h[node].left # NoneRef
                  THEN LET l == remove_biconditionals(h, h[node].left)
                       IN [l.h EXCEPT ![node].left = l.n]
                  ELSE h
            h2 == IF h1[node].right # NoneRef
                  THEN LET r == remove_biconditionals(h1, h1[node].right)
                       IN [r.h EXCEPT ![node].right = r.n]
                  ELSE h1
        IN IF h2[node].value = "<->"
           THEN rewrite_biconditional(h2, node)
           ELSE Ret(h2, node)

RECURSIVE remove_implications(_, _)
remove_implications(h, node) ==
    IF node = NoneRef THEN Ret(h, NoneRef)
    ELSE IF h[node].value \in {"A", "E"} THEN
        IF h[node].right # NoneRef
        THEN LET r == remove_implications(h, h[node].right)
             IN Ret([r.h EXCEPT ![node].right = r.n], node)
        ELSE Ret(h, node)
    ELSE
        LET h1 == IF h[node].left # NoneRef
                  THEN LET l == remove_implications(h, h[node].left)
                       IN [l.h EXCEPT ![node].left = l.n]
                  ELSE h
            h2 == IF h1[node].right # NoneRef
                  THEN LET r == remove_implications(h1, h1[node].right)
                       IN [r.h EXCEPT ![node].right = r.n]
                  ELSE h1
        IN IF h2[node].value = "->"
           THEN LET p == h2[node].left
                    q == h2[node].right
                    neg_p == Node(h2, "-", NoneRef, p, NoVar)
                IN Node(neg_p.h, "v", neg_p.n, q, NoVar)
           ELSE Ret(h2, node)

\* getattr(child, 'value', None) of a child that may be None
value_of(h, node) == IF node = NoneRef THEN "None" ELSE h[node].value

RECURSIVE push_negations_demorgan(_, _)

\* (- (- P)) answered with P as it stands, negations inside P not pushed
double_negation_unpushed(h, child) == Ret(h, h[child].right)

\* (- (- P)) becomes P with its own negations pushed
double_negation(h, child) == push_negations_demorgan(h, h[child].right)

push_negations_demorgan(h, node) ==
    IF node = NoneRef THEN Ret(h, NoneRef)
    ELSE IF h[node].value \in {"A", "E"} THEN
        IF h[node].right # NoneRef
        THEN LET r == push_negations_demorgan(h, h[node].right)
             IN Ret([r.h EXCEPT ![node].right = r.n], node)
        ELSE Ret(h, node)
    ELSE
        LET child == h[node].right
            cv == IF h[node].value = "-" THEN value_of(h, child) ELSE "None"
        IN IF cv = "-" THEN double_negation(h, child)
           ELSE IF cv \in {"&", "v"} THEN
               LET n1 == Node(h, "-", NoneRef, h[child].left, NoVar)
                   new_left == push_negations_demorgan(n1.h, n1.n)
                   n2 == Node(new_left.h, "-", NoneRef, new_left.h[child].right,
                              NoVar)
                   new_right == push_negations_demorgan(n2.h, n2.n)
               IN Node(new_right.h, IF cv = "&" THEN "v" ELSE "&",
                       new_left.n, new_right.n, NoVar)
           ELSE IF cv \in {"A", "E"} THEN
               LET n1 == Node(h, "-", NoneRef, h[child].right, NoVar)
                   new_right == push_negations_demorgan(n1.h, n1.n)
               IN Node(new_right.h, IF cv = "A" THEN "E" ELSE "A",
                       NoneRef, new_right.n, h[child].variable)
           ELSE
               LET h1 == IF h[node].left # NoneRef
                         THEN LET l == push_negations_demorgan(h, h[node].left)
                              IN [l.h EXCEPT ![node].left = l.n]
                         ELSE h
                   h2 == IF h1[node].right # NoneRef
                         THEN LET r == push_negations_demorgan(h1, h1[node].right)
                              IN [r.h EXCEPT ![node].right = r.n]
                         ELSE h1
               IN Ret(h2, node)

\* the test with the two connectives exchanged: an '&' node over a 'v' child
and_child_swapped(h, node, child) ==
    h[node].value = "&" /\ value_of(h, child) = "v"

\* node is a 'v' node and child, one of its operands, is an '&' node
and_child(h, node, child) ==
    h[node].value = "v" /\ value_of(h, child) = "&"

RECURSIVE distribute_or_over_and(_, _)
distribute_or_over_and(h, node) ==
    IF node = NoneRef THEN Ret(h, NoneRef)
    ELSE IF h[node].value \in {"A", "E"} THEN
        IF h[node].right # NoneRef
        THEN LET r == distribute_or_over_and(h, h[node].right)
             IN Ret([r.h EXCEPT ![node].right = r.n], node)
        ELSE Ret(h, node)
    ELSE
        LET h1 == IF h[node].left # NoneRef
                  THEN LET l == distribute_or_over_and(h, h[node].left)
                       IN [l.h EXCEPT ![node].left = l.n]
                  ELSE h
            h2 == IF h1[node].right # NoneRef
                  THEN LET r == distribute_or_over_and(h1, h1[node].right)
                       IN [r.h EXCEPT ![node].right = r.n]
                  ELSE h1
            left == h2[node].left
            right == h2[node].right
        IN IF and_child(h2, node, right) THEN
               LET n1 == Node(h2, "v", left, h2[right].left, NoVar)
                   new_left == distribute_or_over_and(n1.h, n1.n)
                   n2 == Node(new_left.h, "v", left, h2[right].right, NoVar)
                   new_right == distribute_or_over_and(n2.h, n2.n)
               IN Node(new_right.h, "&", new_left.n, new_right.n, NoVar)
           ELSE IF and_child(h2, node, left) THEN
               LET n1 == Node(h2, "v", h2[left].left, right, NoVar)
                   new_left == distribute_or_over_and(n1.h, n1.n)
                   n2 == Node(new_left.h, "v", h2[left].right, right, NoVar)
                   new_right == distribute_or_over_and(n2.h, n2.n)
               IN Node(new_right.h, "&", new_left.n, new_right.n, NoVar)
           ELSE Ret(h2, node)

RECURSIVE nodes_equal(_, _, _)
nodes_equal(h, a, b) ==
    IF a = NoneRef /\ b = NoneRef THEN TRUE
    ELSE IF a = NoneRef \/ b = NoneRef THEN FALSE
    ELSE IF h[a].value # h[b].value THEN FALSE
    ELSE IF h[a].value \in {"A", "E"} /\ h[a].variable # h[b].variable THEN FALSE
    ELSE nodes_equal(h, h[a].left, h[b].left)
         /\ nodes_equal(h, h[a].right, h[b].right)

max_iterations == 100

RECURSIVE cnf_iterate(_, _, _)
\* the for loop of convert_matrix_to_cnf, from iteration number iter on
cnf_iterate(h, node, iter) ==
    IF iter >= max_iterations THEN Ret(h, node)
    ELSE LET previous == node
             d == distribute_or_over_and(h, node)
         IN IF nodes_equal(d.h, previous, d.n) THEN d
            ELSE cnf_iterate(d.h, d.n, iter + 1)

convert_matrix_to_cnf(h, node) == cnf_iterate(h, node, 0)

(***************************************************************************)
(* Quantifier handling.                                                    *)
(***************************************************************************)
RECURSIVE fresh_name(_, _, _, _)
\* the while loop of standardize_variables: var + str(count) until unused
fresh_name(var, used, new_var, count) ==
    IF new_var \in used
    THEN fresh_name(var, used,
                    (IF var # NoVar THEN var ELSE "v") \o ToString(count),
                    count + 1)
    ELSE new_var

RECURSIVE rename_variable(_, _, _, _, _)
rename_variable(h, node, old, new, bound) ==
    IF node = NoneRef THEN Ret(h, NoneRef)
    ELSE IF h[node].value \in {"A", "E"} THEN
        LET var == h[node].variable
            is_bound == IF var # NoVar /\ old # NoVar THEN var = old ELSE FALSE
            new_bound == IF var # NoVar THEN bound \cup {var} ELSE bound
            new_right == rename_variable(h, h[node].right, old, new, new_bound)
        IN IF is_bound
           THEN Node(new_right.h, h[node].value, NoneRef, new_right.n, new)
           ELSE Node(new_right.h, h[node].value, NoneRef, new_right.n, var)
    ELSE IF is_leaf(h, node) /\ h[node].value = old /\ old # NoVar /\ Len(old) = 1
    THEN Node(h, new, NoneRef, NoneRef, NoVar)
    ELSE LET new_left == rename_variable(h, h[node].left, old, new, bound)
             new_right == rename_variable(new_left.h, h[node].right, old, new, bound)
         IN Node(new_right.h, h[node].value, new_left.n, new_right.n, NoVar)

RECURSIVE standardize_variables(_, _, _)
standardize_variables(h, node, used) ==
    IF node = NoneRef THEN Ret(h, NoneRef)
    ELSE IF h[node].value \in {"A", "E"} THEN
        LET var == h[node].variable
            new_var == fresh_name(var, used, IF var # NoVar THEN var ELSE "v", 0)
            new_used == used \cup {new_var}
            std == standardize_variables(h, h[node].right, new_used)
            new_right == IF new_var # var /\ var # NoVar
                         THEN rename_variable(std.h, std.n, var, new_var, {var})
                         ELSE std
        IN Node(new_right.h, h[node].value, NoneRef, new_right.n, new_var)
    ELSE LET new_left == standardize_variables(h, h[node].left, used)
             new_right == standardize_variables(new_left.h, h[node].right, used)
         IN Node(new_right.h, h[node].value, new_left.n, new_right.n, NoVar)

\* the connectives extraction descends through, with 'v' left out
extract_connectives_and_only == {"&"}

extract_connectives == {"&", "v"}

RECURSIVE extract_quantifiers(_, _)
\* returns the pair (quantifiers, matrix) as the fields q and n, with the heap
extract_quantifiers(h, node) ==
    IF node = NoneRef THEN [h |-> h, q |-> <<>>, n |-> NoneRef]
    ELSE IF h[node].value \in {"A", "E"} THEN
        LET e == extract_quantifiers(h, h[node].right)
        IN [h |-> e.h, q |-> <<<<h[node].value, h[node].variable>>>> \o e.q,
            n |-> e.n]
    ELSE IF h[node].value \in extract_connectives THEN
        LET e1 == extract_quantifiers(h, h[node].left)
            e2 == extract_quantifiers(e1.h, h[node].right)
            m == Node(e2.h, h[node].value, e1.n, e2.n, NoVar)
        IN [h |-> m.h, q |-> e1.q \o e2.q, n |-> m.n]
    ELSE IF h[node].value = "-" THEN
        LET e == extract_quantifiers(h, h[node].right)
            m == Node(e.h, "-", NoneRef, e.n, NoVar)
        IN [h |-> m.h, q |-> e.q, n |-> m.n]
    ELSE [h |-> h, q |-> <<>>, n |-> node]

RECURSIVE build_pcnf_forward(_, _, _)
\* the loop over quantifiers without reversed(): the first one is wrapped first
build_pcnf_forward(h, quantifiers, node) ==
    IF quantifiers = <<>> THEN Ret(h, node)
    ELSE LET first == quantifiers[1]
             w == Node(h, first[1], NoneRef, node, first[2])
         IN build_pcnf_forward(w.h, Tail(quantifiers), w.n)

RECURSIVE build_pcnf(_, _, _)
\* wraps the last quantifier of the list first: the loop over reversed(quantifiers)
build_pcnf(h, quantifiers, node) ==
    IF quantifiers = <<>> THEN Ret(h, node)
    ELSE LET last == quantifiers[Len(quantifiers)]
             w == Node(h, last[1], NoneRef, node, last[2])
         IN build_pcnf(w.h, SubSeq(quantifiers, 1, Len(quantifiers) - 1), w.n)

(***************************************************************************)
(* Printer and parser.  A formula text is a string; expression[i] of the   *)
(* source (0-based) is SubSeq(expression, i + 1, i + 1) here.              *)
(***************************************************************************)
RECURSIVE ast_to_string(_, _)
ast_to_string(h, node) ==
    IF node = NoneRef THEN ""
    ELSE IF is_leaf(h, node) THEN h[node].value
    ELSE IF h[node].value \in {"A", "E"} THEN
        "(" \o h[node].value \o h[node].variable \o " "
            \o ast_to_string(h, h[node].right) \o ")"
    ELSE IF h[node].value = "-" THEN
        "(- " \o ast_to_string(h, h[node].right) \o ")"
    ELSE "(" \o ast_to_string(h, h[node].left) \o " " \o h[node].value \o " "
             \o ast_to_string(h, h[node].right) \o ")"

Lower == {"a", "b", "c", "d", "e", "f", "g", "h", "i", "j", "k", "l", "m",
          "n", "o", "p", "q", "r", "s", "t", "u", "v", "w", "x", "y", "z"}
\* the whitespace of str.strip() and of \s that a printed formula can hold
Whitespace == {" "}

CharAt(e, i) == SubSeq(e, i, i)

RECURSIVE strip(_)
strip(e) ==
    IF e = "" THEN e
    ELSE IF CharAt(e, 1) \in Whitespace THEN strip(SubSeq(e, 2, Len(e)))
    ELSE IF CharAt(e, Len(e)) \in Whitespace THEN strip(SubSeq(e, 1, Len(e) - 1))
    ELSE e

\* expression.startswith(op, i) with the 1-based position i
startswith(e, op, i) ==
    i + Len(op) - 1 <= Len(e) /\ SubSeq(e, i, i + Len(op) - 1) = op

RECURSIVE wrapper_scan(_, _, _)
\* the scan of expression[1:-1]: TRUE iff the level never drops below 0 and ends at 0
wrapper_scan(e, i, level) ==
    IF i > Len(e) - 1 THEN level = 0
    ELSE LET char == CharAt(e, i)
             lv == IF char = "(" THEN level + 1
                   ELSE IF char = ")" THEN level - 1 ELSE level
         IN IF lv < 0 THEN FALSE ELSE wrapper_scan(e, i + 1, lv)

is_wrapper(e) ==
    /\ startswith(e, "(", 1)
    /\ Len(e) >= 1 /\ CharAt(e, Len(e)) = ")"
    /\ wrapper_scan(e, 2, 0)

RECURSIVE skip_whitespace(_, _)
skip_whitespace(e, i) ==
    IF i <= Len(e) /\ CharAt(e, i) \in Whitespace THEN skip_whitespace(e, i + 1)
    ELSE i

\* re.match(r'^([AE])([a-z])\s+(.+)$', expression): the start of group 3, or 0
match_quant(e) ==
    IF /\ Len(e) >= 4
       /\ CharAt(e, 1) \in {"A", "E"}
       /\ CharAt(e, 2) \in Lower
       /\ CharAt(e, 3) \in Whitespace
    THEN LET j == skip_whitespace(e, 3)
         IN IF j <= Len(e) THEN j ELSE Len(e)
    ELSE 0

RECURSIVE find_operator(_, _, _, _)
\* the right-to-left scan for op: the 1-based position of the split, or 0
find_operator(e, op, i, level) ==
    IF i < 1 THEN 0
    ELSE LET char == CharAt(e, i)
             lv == IF char = ")" THEN level + 1
                   ELSE IF char = "(" THEN level - 1 ELSE level
         IN IF lv = 0 /\ startswith(e, op, i) THEN i
            ELSE find_operator(e, op, i - 1, lv)

operators_by_precedence == <<"<->", "->", "v", "&">>

RECURSIVE first_split(_, _)
\* the first operator, in precedence order, that splits e: <<op, position>>
first_split(e, k) ==
    IF k > Len(operators_by_precedence) THEN <<"", 0>>
    ELSE LET i == find_operator(e, operators_by_precedence[k], Len(e), 0)
         IN IF i > 0 THEN <<operators_by_precedence[k], i>>
            ELSE first_split(e, k + 1)

\* the reference returned in place of a raised ValueError
ValueError == -1

RECURSIVE build_ast_from_expression(_, _)
build_ast_from_expression(h, expression) ==
    LET e == strip(expression)
        body == match_quant(e)
        split == first_split(e, 1)
    IN IF is_wrapper(e)
       THEN build_ast_from_expression(h, SubSeq(e, 2, Len(e) - 1))
       ELSE IF body > 0 THEN
           LET b == build_ast_from_expression(h, SubSeq(e, body, Len(e)))
           IN IF b.n = ValueError THEN b
              ELSE Node(b.h, CharAt(e, 1), NoneRef, b.n, CharAt(e, 2))
       ELSE IF split[2] > 0 THEN
           LET l == build_ast_from_expression(h, SubSeq(e, 1, split[2] - 1))
               r == build_ast_from_expression(l.h,
                        SubSeq(e, split[2] + Len(split[1]), Len(e)))
           IN IF l.n = ValueError THEN l
              ELSE IF r.n = ValueError THEN r
              ELSE Node(r.h, split[1], l.n, r.n, NoVar)
       ELSE IF startswith(e, "- ", 1) THEN
           LET r == build_ast_from_expression(h, SubSeq(e, 3, Len(e)))
           IN IF r.n = ValueError THEN r
              ELSE Node(r.h, "-", NoneRef, r.n, NoVar)
       ELSE IF e \in Lower THEN Node(h, e, NoneRef, NoneRef, NoVar)
       ELSE Ret(h, ValueError)

(***************************************************************************)
(* Input trees: every tree with at most a given number of nodes over a     *)
(* set of atoms, of one-child nodes (value, variable) and of connectives.  *)
(***************************************************************************)
RECURSIVE TreesBySize(_, _, _, _)
\* the sequence <<trees of 1 node, ..., trees of k nodes>>
TreesBySize(k, atoms, unary, binary) ==
    IF k = 0 THEN <<>>
    ELSE LET prev == TreesBySize(k - 1, atoms, unary, binary)
         IN Append(prev,
                IF k = 1 THEN {Atom(a) : a \in atoms}
                ELSE {[value |-> u[1], left |-> NoTree, right |-> t,
                       variable |-> u[2]] : u \in unary, t \in prev[k - 1]}
                     \cup UNION {{Bin(b, l, r) : b \in binary, l \in prev[i],
                                                 r \in prev[k - 1 - i]}
                                 : i \in 1..(k - 2)})

TreesUpTo(k, atoms, unary, binary) ==
    LET sized == TreesBySize(k, atoms, unary, binary)
    IN UNION {sized[i] : i \in 1..k}

\* the expressions of the demonstration driver, as the parser builds them
Examples ==
    { Quant("A", "y", Bin("v", Atom("a"), Atom("b"))),
      Quant("E", "x", Bin("v", Atom("p"), Atom("q"))),
      Quant("A", "x", Quant("E", "y", Bin("&", Atom("r"), Not(Atom("s"))))),
      Bin("v", Quant("A", "z", Atom("p")), Quant("E", "w", Atom("q"))),
      Quant("A", "x", Bin("->", Atom("p"), Atom("q"))),
      Quant("A", "y", Bin("<->", Bin("v", Atom("p"), Atom("q")), Atom("r"))),
      Quant("E", "x", Not(Bin("&", Atom("a"), Atom("b")))),
      Quant("A", "y", Not(Bin("v", Atom("c"), Atom("d")))) }

\* z is also the name the quantifiers bind; v is also the word for disjunction
Atoms == {"z", "v"}
\* existential quantifiers come in through the examples and through negation
Unary == {<<"-", NoVar>>, <<"A", "z">>}
Connectives == {"&", "v", "->", "<->"}

PipelineInputs == TreesUpTo(MaxNodes, Atoms, Unary, Connectives) \cup Examples

(***************************************************************************)
(* convert_to_pcnf, one action per statement.                              *)
(***************************************************************************)
Init ==
    /\ input \in PipelineInputs
    /\ LET root == Load(<<>>, input)
       IN heap = root.h /\ ast = root.n
    /\ pc = "remove_biconditionals"
    /\ quants = <<>>
    /\ matrix = NoneRef
    /\ result = NoneRef
    /\ text = ""
    /\ arg = <<>>

RemoveBiconditionals ==
    /\ pc = "remove_biconditionals"
    /\ LET r == remove_biconditionals(heap, ast)
       IN heap' = r.h /\ ast' = r.n
    /\ pc' = "remove_implications"
    /\ UNCHANGED <<input, quants, matrix, result, text, arg>>

RemoveImplications ==
    /\ pc = "remove_implications"
    /\ LET r == remove_implications(heap, ast)
       IN heap' = r.h /\ ast' = r.n
    /\ pc' = "push_negations"
    /\ UNCHANGED <<input, quants, matrix, result, text, arg>>

PushNegations ==
    /\ pc = "push_negations"
    /\ LET r == push_negations_demorgan(heap, ast)
       IN heap' = r.h /\ ast' = r.n
    /\ pc' = "standardize"
    /\ UNCHANGED <<input, quants, matrix, result, text, arg>>

StandardizeVariables ==
    /\ pc = "standardize"
    /\ LET r == standardize_variables(heap, ast, {})
       IN heap' = r.h /\ ast' = r.n
    /\ pc' = "extract"
    /\ UNCHANGED <<input, quants, matrix, result, text, arg>>

\* quants, matrix = extract_quantifiers(ast), with the default atom for no matrix
ExtractQuantifiers ==
    /\ pc = "extract"
    /\ LET e == extract_quantifiers(heap, ast)
           m == IF e.n = NoneRef
                THEN Node(e.h, "a", NoneRef, NoneRef, NoVar)
                ELSE Ret(e.h, e.n)
       IN heap' = m.h /\ matrix' = m.n /\ quants' = e.q
    /\ pc' = "cnf"
    /\ UNCHANGED <<input, ast, result, text, arg>>

ConvertMatrixToCnf ==
    /\ pc = "cnf"
    /\ LET r == convert_matrix_to_cnf(heap, matrix)
       IN heap' = r.h /\ matrix' = r.n
    /\ pc' = "build"
    /\ UNCHANGED <<input, ast, quants, result, text, arg>>

BuildPcnf ==
    /\ pc = "build"
    /\ LET r == build_pcnf(heap, quants, matrix)
       IN heap' = r.h /\ result' = r.n
    /\ pc' = "done"
    /\ UNCHANGED <<input, ast, quants, matrix, text, arg>>

\* the driver prints ast_to_string(pcnf_ast)
PrintPcnf ==
    /\ pc = "done"
    /\ text' = ast_to_string(heap, result)
    /\ pc' = "printed"
    /\ UNCHANGED <<input, heap, ast, quants, matrix, result, arg>>

Next ==
    \/ RemoveBiconditionals
    \/ RemoveImplications
    \/ PushNegations
    \/ StandardizeVariables
    \/ ExtractQuantifiers
    \/ ConvertMatrixToCnf
    \/ BuildPcnf
    \/ PrintPcnf

Spec == Init /\ [][Next]_vars

(***************************************************************************)
(* One function called on a tree built directly.                           *)
(***************************************************************************)
RECURSIVE HasValue(_, _)
\* some node of t that is not an atom has one of the values vs
HasValue(t, vs) ==
    IF t = NoTree THEN FALSE
    ELSE \/ (t.value \in vs /\ ~(t.left = NoTree /\ t.right = NoTree))
         \/ HasValue(t.left, vs)
         \/ HasValue(t.right, vs)

OpUnary == {<<"-", NoVar>>, <<"A", "z">>, <<"E", "z">>}

OpInputs ==
    TreesUpTo(MaxOpNodes, Atoms, OpUnary, {"&", "v"})
    \cup {t \in Examples : ~HasValue(t, {"->", "<->"})}

\* the names a caller renames from and to
OldNames == {"z", "v"}
NewNames == {"y"}

InitOps ==
    /\ input \in OpInputs
    /\ LET root == Load(<<>>, input)
       IN heap = root.h /\ ast = root.n
    /\ pc = "call"
    /\ quants = <<>>
    /\ matrix = NoneRef
    /\ result = NoneRef
    /\ text = ""
    /\ arg = <<>>

CallPushNegations ==
    /\ pc = "call"
    /\ LET r == push_negations_demorgan(heap, ast)
       IN heap' = r.h /\ result' = r.n
    /\ pc' = "push_negations_demorgan"
    /\ UNCHANGED <<input, ast, quants, matrix, text, arg>>

CallDistribute ==
    /\ pc = "call"
    /\ LET r == distribute_or_over_and(heap, ast)
       IN heap' = r.h /\ result' = r.n
    /\ pc' = "distribute_or_over_and"
    /\ UNCHANGED <<input, ast, quants, matrix, text, arg>>

CallConvertMatrix ==
    /\ pc = "call"
    /\ LET r == convert_matrix_to_cnf(heap, ast)
       IN heap' = r.h /\ result' = r.n
    /\ pc' = "convert_matrix_to_cnf"
    /\ UNCHANGED <<input, ast, quants, matrix, text, arg>>

CallStandardize ==
    /\ pc = "call"
    /\ LET r == standardize_variables(heap, ast, {})
       IN heap' = r.h /\ result' = r.n
    /\ pc' = "standardize_variables"
    /\ UNCHANGED <<input, ast, quants, matrix, text, arg>>

CallRename ==
    /\ pc = "call"
    /\ \E old \in OldNames, new \in NewNames :
          /\ LET r == rename_variable(heap, ast, old, new, {old})
             IN heap' = r.h /\ result' = r.n
          /\ arg' = <<old, new>>
    /\ pc' = "rename_variable"
    /\ UNCHANGED <<input, ast, quants, matrix, text>>

CallExtract ==
    /\ pc = "call"
    /\ LET e == extract_quantifiers(heap, ast)
       IN heap' = e.h /\ matrix' = e.n /\ quants' = e.q
    /\ pc' = "extract_quantifiers"
    /\ UNCHANGED <<input, ast, result, text, arg>>

CallBuild ==
    /\ pc = "extract_quantifiers"
    /\ LET r == build_pcnf(heap, quants, matrix)
       IN heap' = r.h /\ result' = r.n
    /\ pc' = "build_pcnf"
    /\ UNCHANGED <<input, ast, quants, matrix, text, arg>>

NextOps ==
    \/ CallPushNegations
    \/ CallDistribute
    \/ CallConvertMatrix
    \/ CallStandardize
    \/ CallRename
    \/ CallExtract
    \/ CallBuild

SpecOps == InitOps /\ [][NextOps]_vars

(***************************************************************************)
(* A tree built directly, printed, and the text parsed back.               *)
(***************************************************************************)
TextAtoms == {"p", "v"}
TextUnary == {<<"-", NoVar>>, <<"A", "z">>, <<"E", "v">>}

TextInputs == TreesUpTo(MaxTextNodes, TextAtoms, TextUnary, Connectives)

InitText ==
    /\ input \in TextInputs
    /\ LET root == Load(<<>>, input)
       IN heap = root.h /\ ast = root.n
    /\ pc = "print"
    /\ quants = <<>>
    /\ matrix = NoneRef
    /\ result = NoneRef
    /\ text = ""
    /\ arg = <<>>

PrintTree ==
    /\ pc = "print"
    /\ text' = ast_to_string(heap, ast)
    /\ pc' = "parse"
    /\ UNCHANGED <<input, heap, ast, quants, matrix, result, arg>>

\* result is the root of the parsed tree, or ValueError
ParseText ==
    /\ pc = "parse"
    /\ LET r == build_ast_from_expression(heap, text)
       IN heap' = r.h /\ result' = r.n
    /\ pc' = "parsed"
    /\ UNCHANGED <<input, ast, quants, matrix, text, arg>>

NextText ==
    \/ PrintTree
    \/ ParseText

SpecText == InitText /\ [][NextText]_vars

(***************************************************************************)
(* Vocabulary of the properties.  A node without children is an atom,      *)
(* whatever its value; every other node is named by its value.             *)
(***************************************************************************)
IsAtom(t) == t # NoTree /\ t.left = NoTree /\ t.right = NoTree
IsNode(t, vs) == t # NoTree /\ ~IsAtom(t) /\ t.value \in vs
IsQuantifier(t) == IsNode(t, {"A", "E"})

RECURSIVE Subtrees(_)
Subtrees(t) ==
    IF t = NoTree THEN {}
    ELSE {t} \cup Subtrees(t.left) \cup Subtrees(t.right)

RECURSIVE MatrixOf(_)
\* what is left of t below its leading chain of quantifiers
MatrixOf(t) == IF IsQuantifier(t) THEN MatrixOf(t.right) ELSE t

RECURSIVE PrefixOf(_)
\* the leading chain of quantifiers of t, outermost first
PrefixOf(t) ==
    IF IsQuantifier(t) THEN <<<<t.value, t.variable>>>> \o PrefixOf(t.right)
    ELSE <<>>

QuantifierFree(t) == \A n \in Subtrees(t) : ~IsQuantifier(n)

NoOrOverAnd(t) ==
    \A n \in Subtrees(t) :
        IsNode(n, {"v"}) => ~IsNode(n.left, {"&"}) /\ ~IsNode(n.right, {"&"})

NegationsOnAtoms(t) ==
    \A n \in Subtrees(t) : IsNode(n, {"-"}) => IsAtom(n.right)

WellFormed(t) ==
    \A n \in Subtrees(t) :
        /\ IsAtom(n) => n.value \in Lower
        /\ IsQuantifier(n) => n.variable \in Lower

RECURSIVE QuantifiersInOrder(_)
\* the quantifier nodes of t in pre-order, left operand before right operand
QuantifiersInOrder(t) ==
    IF t = NoTree THEN <<>>
    ELSE (IF IsQuantifier(t) THEN <<<<t.value, t.variable>>>> ELSE <<>>)
         \o QuantifiersInOrder(t.left) \o QuantifiersInOrder(t.right)

RECURSIVE Wrap(_, _)
\* the quantifiers qs put in front of m, the first of them outermost
Wrap(qs, m) ==
    IF qs = <<>> THEN m
    ELSE Quant(Head(qs)[1], Head(qs)[2], Wrap(Tail(qs), m))

Distinct(seq) ==
    \A i, j \in 1..Len(seq) : i # j => seq[i] # seq[j]

Symbols(t) == {n.value : n \in {m \in Subtrees(t) : IsAtom(m)}}

RECURSIVE Eval(_, _)
\* the truth value of a quantifier-free t under the assignment env
Eval(t, env) ==
    IF t = NoTree THEN FALSE
    ELSE IF IsAtom(t) THEN env[t.value]
    ELSE IF t.value = "-" THEN ~Eval(t.right, env)
    ELSE IF t.value = "&" THEN Eval(t.left, env) /\ Eval(t.right, env)
    ELSE IF t.value = "v" THEN Eval(t.left, env) \/ Eval(t.right, env)
    ELSE IF t.value = "->" THEN Eval(t.left, env) => Eval(t.right, env)
    ELSE IF t.value = "<->" THEN Eval(t.left, env) <=> Eval(t.right, env)
    ELSE FALSE

Equivalent(s, t) ==
    \A env \in [Symbols(s) \cup Symbols(t) -> BOOLEAN] :
        Eval(s, env) = Eval(t, env)

RECURSIVE Substitute(_, _, _)
\* t with the occurrences of old that no quantifier of t rebinds replaced by new
Substitute(t, old, new) ==
    IF t = NoTree THEN NoTree
    ELSE IF IsQuantifier(t) /\ t.variable = old THEN t
    ELSE IF IsAtom(t) THEN (IF t.value = old THEN Atom(new) ELSE t)
    ELSE [value |-> t.value, left |-> Substitute(t.left, old, new),
          right |-> Substitute(t.right, old, new), variable |-> t.variable]

Output == Tree(heap, result)

(***************************************************************************)
(* The properties.                                                         *)
(***************************************************************************)

\* C1: the tree convert_to_pcnf returns is in prenex shape: below its leading
\* chain of quantifiers there is no quantifier, and no 'v' node there has an
\* '&' node as an immediate child.
C1_PrenexShape ==
    pc \in {"done", "printed"} =>
        /\ QuantifierFree(MatrixOf(Output))
        /\ NoOrOverAnd(MatrixOf(Output))

\* C1 witness: a finished conversion of a tree that, standardized, still had a
\* quantifier below a connective and a 'v' node over an '&' node.
C1_Witness ==
    /\ pc = "done"
    /\ ~QuantifierFree(MatrixOf(Tree(heap, ast)))
    /\ ~NoOrOverAnd(Tree(heap, ast))

\* C2: after standardize_variables no two quantifier nodes of the tree bind
\* the same name, nested or in sibling subtrees.
C2_UniqueBoundNames ==
    pc = "standardize_variables" =>
        Distinct([i \in 1..Len(QuantifiersInOrder(Output)) |->
                     QuantifiersInOrder(Output)[i][2]])

\* C3: parsing the printed text of a directly built well-formed tree succeeds
\* and gives back a tree structurally equal to it.
C3_RoundTrip ==
    pc = "parsed" => result # ValueError /\ Output = input

\* C4: the tree convert_to_pcnf returns is well-formed: every atom symbol and
\* every bound-variable name in it is a single lowercase letter.
C4_OutputWellFormed ==
    pc \in {"done", "printed"} => WellFormed(Output)

DisjunctionExample ==
    Bin("v", Quant("A", "z", Atom("p")), Quant("E", "w", Atom("q")))

\* C6: extract_quantifiers lists the quantifiers of the tree in pre-order, left
\* operand before right operand, and build_pcnf puts that list in front of the
\* matrix with the first-extracted quantifier outermost; ((Az p) v (Ew q))
\* becomes (Az (Ew (p v q))).
C6_QuantifierOrder ==
    /\ pc \in {"extract_quantifiers", "build_pcnf"} =>
           quants = QuantifiersInOrder(input)
    /\ pc = "build_pcnf" =>
           /\ Output = Wrap(quants, Tree(heap, matrix))
           /\ PrefixOf(Output) = quants \o PrefixOf(Tree(heap, matrix))
           /\ input = DisjunctionExample =>
                  Output = Quant("A", "z", Quant("E", "w",
                               Bin("v", Atom("p"), Atom("q"))))

\* C6 witness: a prefix rebuilt from two different quantifiers, one from each
\* operand of a connective.
C6_Witness ==
    /\ pc = "build_pcnf"
    /\ Len(quants) >= 2
    /\ quants[1] # quants[2]
    /\ IsNode(input, {"&", "v"})
    /\ QuantifiersInOrder(input.left) # <<>>
    /\ QuantifiersInOrder(input.right) # <<>>

\* C7: on a quantifier-free tree with no 'v' node over an '&' child,
\* distribute_or_over_and and convert_matrix_to_cnf return a tree structurally
\* equal to the one they were given.
C7_DistributeIdempotent ==
    (/\ pc \in {"distribute_or_over_and", "convert_matrix_to_cnf"}
     /\ QuantifierFree(input)
     /\ NoOrOverAnd(input)) => Output = input

\* C7 witness: distribute_or_over_and has returned for a quantifier-free tree
\* in CNF that has both 'v' and '&' nodes.
C7_Witness ==
    /\ pc = "distribute_or_over_and"
    /\ QuantifierFree(input)
    /\ NoOrOverAnd(input)
    /\ HasValue(input, {"v"})
    /\ HasValue(input, {"&"})

BiconditionalExample ==
    Quant("A", "y", Bin("<->", Bin("v", Atom("p"), Atom("q")), Atom("r")))

\* ((-p v -q v r) & (-r v p) & (-r v q))
StatedMatrix ==
    Bin("&", Bin("v", Not(Atom("p")), Bin("v", Not(Atom("q")), Atom("r"))),
             Bin("&", Bin("v", Not(Atom("r")), Atom("p")),
                      Bin("v", Not(Atom("r")), Atom("q"))))

\* C8 as stated: (Ay ((p v q) <-> r)) is converted to one universal quantifier
\* over y and a CNF matrix equivalent to ((-p v -q v r) & (-r v p) & (-r v q)),
\* printed as (Ay (((- p) v ((- q) v r)) & (((- r) v p) & ((- r) v q)))).
C8_AsStated ==
    (pc = "printed" /\ input = BiconditionalExample) =>
        /\ PrefixOf(Output) = <<<<"A", "y">>>>
        /\ NoOrOverAnd(MatrixOf(Output))
        /\ Equivalent(MatrixOf(Output), StatedMatrix)
        /\ text = "(Ay (((- p) v ((- q) v r)) & (((- r) v p) & ((- r) v q))))"

\* C8 amended: (Ay ((p v q) <-> r)) is converted to one universal quantifier
\* over y and a CNF matrix equivalent to ((p v q) <-> r), that is to
\* ((-p v r) & (-q v r) & (-r v p v q)), printed as
\* (Ay ((((- p) v r) & ((- q) v r)) & ((- r) v (p v q)))).
C8_BiconditionalExample ==
    (pc = "printed" /\ input = BiconditionalExample) =>
        /\ PrefixOf(Output) = <<<<"A", "y">>>>
        /\ QuantifierFree(MatrixOf(Output))
        /\ NoOrOverAnd(MatrixOf(Output))
        /\ Equivalent(MatrixOf(Output), MatrixOf(input))
        /\ Equivalent(MatrixOf(Output),
                      Bin("&", Bin("v", Not(Atom("p")), Atom("r")),
                          Bin("&", Bin("v", Not(Atom("q")), Atom("r")),
                              Bin("v", Not(Atom("r")),
                                  Bin("v", Atom("p"), Atom("q"))))))
        /\ text = "(Ay ((((- p) v r) & ((- q) v r)) & ((- r) v (p v q))))"

\* C8 witness: the conversion of (Ay ((p v q) <-> r)) has been printed.
C8_Witness == pc = "printed" /\ input = BiconditionalExample

\* C9: rename_variable leaves a quantifier that rebinds old, and everything in
\* its body, unchanged, and replaces the other occurrences of old by new.
C9_RenameRespectsShadowing ==
    pc = "rename_variable" => Output = Substitute(input, arg[1], arg[2])

\* C10: for a quantifier-free input tree, the tree convert_to_pcnf returns has
\* the same truth value as the input under every assignment to the atoms.
C10_MeaningPreserved ==
    (pc = "done" /\ QuantifierFree(input)) => Equivalent(input, Output)

====
